---- MODULE Spec2Model ----
(***************************************************************************)
(* os-aio-pod-channel: the channel manager, the channel state machine with *)
(* its two transfer tasks, the middleware pipeline and the middleware      *)
(* loader, as state machines on one asyncio event loop.  One action is one *)
(* callback of the loop: a task runs from one suspension point to the next.*)
(* A channel records its events only when the loop's debug flag is set.    *)
(***************************************************************************)
EXTENDS Integers, Sequences, FiniteSets, TLC

VARIABLES
    channel_class,       \* config.channel_class: "serial" or "parallel" start
    debug,               \* loop.get_debug(): channels record events only when set
    channels,            \* ChannelManager.channels: ids of registered channels
    closing,             \* ChannelManager.closing
    chan,                \* channel id -> the channel object's state
    mclose,              \* the manager.close calls made so far, with their close_channel tasks
    clock,               \* loop.time()
    lastError,           \* the last exception raised to a caller of the API
    middlewares,         \* MiddlewareManager.middlewares (instances, by position)
    forward_callbacks,   \* MiddlewareManager.forward_callbacks
    backward_callbacks,  \* MiddlewareManager.backward_callbacks
    close_callbacks,     \* MiddlewareManager.close_callbacks
    setupIdx,            \* position of MiddlewareManager._setup in self.middlewares
    setupDone,           \* the middlewares whose setup() returned, in order
    pipe,                \* the last pipeline call: direction, input, hook calls, outcome
    MIDDLEWARES,         \* config.MIDDLEWARES
    sorted_confs,        \* load_middlewares' sorted_confs
    loadIdx,             \* position of load_middlewares in config.MIDDLEWARES
    loadState,           \* "loading", "loaded", or the exception that ended loading
    endpoint             \* an Endpoint object that callers close: its state

vars == <<channel_class, debug, channels, closing, chan, mclose, clock, lastError,
          middlewares, forward_callbacks, backward_callbacks, close_callbacks,
          setupIdx, setupDone, pipe, MIDDLEWARES, sorted_confs, loadIdx, loadState,
          endpoint>>

mgrVars  == <<channel_class, debug, channels, closing, chan, mclose, clock, lastError>>
pipeVars == <<middlewares, forward_callbacks, backward_callbacks, close_callbacks,
              setupIdx, setupDone, pipe>>
loadVars == <<MIDDLEWARES, sorted_confs, loadIdx, loadState>>
epVars   == <<endpoint>>

(***************************************************************************)
(* Bounds of the model.                                                    *)
(***************************************************************************)
NumChannels == 1
MaxTime == 2
MaxCloseCalls == 1
MaxCloseHooks == 1
MaxMiddlewares == 2
MaxConfs == 3
MaxEndpointCalls == 3

ChanIds == 1..NumChannels
None == -1
(* Readings of the loop's monotonic clock, which are positive.              *)
Times == 1..MaxTime

Durations == 0..(MaxTime - 1)
Chunks == {"x"}

(***************************************************************************)
(* Small helpers.                                                          *)
(***************************************************************************)
SeqToSet(q) == {q[i] : i \in 1..Len(q)}

Truthy(v) == v # None /\ v # 0

(***************************************************************************)
(* Attributes.  MiddlewareManager defines these methods and no others;     *)
(* FullDuplexChannel and Channel declare __slots__, so an instance of      *)
(* FullDuplexChannel has no __dict__, while SerialStartupChannel declares  *)
(* none and has one.                                                       *)
(***************************************************************************)
MiddlewareManagerAttrs ==
    {"load_middlewares", "_action", "forward", "backward", "close",
     "_register_callbacks", "_setup", "setup", "cleanup",
     "engine", "middlewares", "forward_callbacks", "backward_callbacks",
     "close_callbacks", "logger"}

ChannelSlots ==
    {"manager", "frontend", "backend", "closed", "loop", "_read_max", "_debug",
     "events", "_upstream_task", "_downstream_task", "_connected_event",
     "_closing_event", "_closing_trigger", "_upstream_action", "_downstream_action"}

CanSetAttr(variant, name) == variant = "serial" \/ name \in ChannelSlots

TimeHandlerFields == {"hander", "when"}

(***************************************************************************)
(* The middleware pipeline.  Data is a sequence of bytes; NoneData stands  *)
(* for Python's None.  A hook is user code: what it does on one call is    *)
(* drawn per call from Behaviours ("tag": append the middleware's tag on   *)
(* forward, prepend it on backward; "same": return the data; "none":       *)
(* return None; "empty": return b''; "raise": raise an Exception;          *)
(* "cancel": the awaiting task is cancelled while inside the hook).        *)
(***************************************************************************)
NoneData == <<"None">>
RaisedData == <<"Exception">>
CancelledData == <<"CancelledError">>
Behaviours == {"tag", "same", "none", "empty", "raise", "cancel"}

Tag(m) == ToString(m)

HookReturn(m, method, beh, data) ==
    CASE beh = "tag"   -> IF method = "backward" THEN <<Tag(m)>> \o data
                          ELSE Append(data, Tag(m))
      [] beh = "none"  -> NoneData
      [] beh = "empty" -> <<>>
      [] OTHER         -> data

RECURSIVE ActionFrom(_, _, _, _, _, _)
ActionFrom(method, callbacks, b, k, data, calls) ==
    IF k > Len(callbacks) THEN [kind |-> "ok", data |-> data, calls |-> calls]
    ELSE IF b[k] = "cancel"
    THEN [kind |-> "CancelledError", data |-> data,
          calls |-> Append(calls, [mw |-> callbacks[k], arg |-> data, ret |-> CancelledData])]
    ELSE IF b[k] = "raise"
    THEN [kind |-> "MiddlewareException", data |-> data,
          calls |-> Append(calls, [mw |-> callbacks[k], arg |-> data, ret |-> RaisedData])]
    ELSE LET ret == HookReturn(callbacks[k], method, b[k], data)
             log == Append(calls, [mw |-> callbacks[k], arg |-> data, ret |-> ret])
         IN  IF ret = NoneData
             THEN [kind |-> "ok", data |-> NoneData, calls |-> log]
             ELSE ActionFrom(method, callbacks, b, k + 1, ret, log)

Action(method, callbacks, b, data) == ActionFrom(method, callbacks, b, 1, data, <<>>)

Forward(b, data) == Action("forward", forward_callbacks, b, data)

Backward(b, data) == Action("backward", backward_callbacks, b, data)

(* What the channel's call manager.middleware.<attr>(self, data) yields.   *)
PipelineCall(attr, b, data) ==
    IF attr \notin MiddlewareManagerAttrs
    THEN [kind |-> "AttributeError", data |-> data, calls |-> <<>>]
    ELSE IF attr = "backward" THEN Backward(b, data) ELSE Forward(b, data)

UpstreamPipelineAttr == "upstream"

DownstreamPipelineAttr == "downstream"

DataTruthy(d) == d # NoneData /\ d # <<>>

(***************************************************************************)
(* The channel object.                                                     *)
(***************************************************************************)
Unborn ==
    [exists |-> FALSE, variant |-> "none",
     frontendClosed |-> FALSE, backend |-> "null", backendClosed |-> FALSE,
     closed |-> FALSE, connected |-> FALSE, closingEvent |-> FALSE,
     trigger |-> None, timers |-> {},
     upTask |-> "none", upRef |-> FALSE, upCallbacks |-> FALSE, upCancel |-> FALSE,
     upResult |-> "pending", upNotified |-> FALSE,
     upAction |-> "build_connection", upData |-> <<>>,
     downTask |-> "none", downRef |-> FALSE, downCallbacks |-> FALSE, downCancel |-> FALSE,
     downResult |-> "pending", downNotified |-> FALSE,
     downAction |-> "wait_connection", downData |-> <<>>,
     tpc |-> "idle", texc |-> "None", hook |-> 0, closeCalls |-> <<>>,
     events |-> <<>>,
     feRead |-> <<>>, beWritten |-> <<>>, beRead |-> <<>>, feWritten |-> <<>>]

SaveEvent(s, ev, exc) ==
    IF debug THEN [s EXCEPT !.events = Append(@, [event |-> ev, exc |-> exc])] ELSE s

(* NullEndpoint.closed is True from construction.                          *)
BackendClosed(s) == IF s.backend = "null" THEN TRUE ELSE s.backendClosed

(* bool(self.backend): NullEndpoint.__bool__ is False, an Endpoint is a    *)
(* non-empty tuple.                                                        *)
BackendTruthy(s) == s.backend # "null"

(* Channel.__init__ and FullDuplexChannel.__init__ with the null backend.  *)
NewChannel(variant) ==
    SaveEvent([Unborn EXCEPT !.exists = TRUE, !.variant = variant],
              "FRONTEND_CONNECTED", "None")

TaskRunning(t) == t \in {"created", "reading", "writing", "waiting"}

(* FullDuplexChannel.cancel: task.cancel() on every referenced task that   *)
(* is not done.                                                            *)
Cancel(s) ==
    [s EXCEPT !.upCancel   = @ \/ (s.upRef /\ TaskRunning(s.upTask)),
              !.downCancel = @ \/ (s.downRef /\ TaskRunning(s.downTask))]

(* _do_close_backend.  Endpoint.close sets closed whatever writer.close()  *)
(* does; writer.close() is taken to return normally.                       *)
DoCloseBackend(s) ==
    LET s1 == IF ~BackendClosed(s)
              THEN [SaveEvent(s, "BACKEND_CLOSE", "None") EXCEPT !.backendClosed = TRUE]
              ELSE s
    IN  [s1 EXCEPT !.connected = TRUE, !.upAction = "None"]

(* _do_close_frontend.                                                     *)
DoCloseFrontend(s) ==
    LET s1 == IF ~s.frontendClosed
              THEN SaveEvent([s EXCEPT !.frontendClosed = TRUE], "FRONTEND_CLOSE", "None")
              ELSE s
    IN  [s1 EXCEPT !.downAction = "None"]

(* The trampoline of _upstream once the slot holds _do_close_backend: the  *)
(* step is synchronous and the task ends with it.                          *)
UpstreamFinish(s) ==
    [DoCloseBackend([s EXCEPT !.upAction = "close_backend"])
       EXCEPT !.upTask = "ended", !.upResult = "DONE"]

DownstreamFinish(s) ==
    [DoCloseFrontend([s EXCEPT !.downAction = "close_frontend"])
       EXCEPT !.downTask = "ended", !.downResult = "DONE"]

(***************************************************************************)
(* The forward task.                                                       *)
(***************************************************************************)
(* The top of _do_upstream's loop with data in hand: write it when it is   *)
(* truthy, else go on to the read.                                         *)
UpstreamLoop(s, data) ==
    IF DataTruthy(data)
    THEN [s EXCEPT !.upAction = "upstream", !.upTask = "writing", !.upData = data]
    ELSE [s EXCEPT !.upAction = "upstream", !.upTask = "reading", !.upData = <<>>]

(* _upstream's first step: the task was cancelled before it ran, or it     *)
(* runs into _do_build_connection's first read.                            *)
UpstreamFirstStep(s) ==
    IF s.upCancel
    THEN [s EXCEPT !.upTask = "ended", !.upResult = "CANCELLED", !.upCancel = FALSE]
    ELSE [SaveEvent(SaveEvent(s, "UPSTREAM_TASK_START", "None"),
                    "FRONTEND_START_READING", "None")
            EXCEPT !.upTask = "reading"]

(* frontend.read returned r in _do_build_connection or _do_upstream; a     *)
(* pending cancellation is raised at the await instead.                    *)
UpstreamAfterRead(s, r, chunk, b) ==
    IF s.upCancel
    THEN UpstreamFinish(
           [SaveEvent(s, "FRONTEND_READ_ERROR", "CancelledError") EXCEPT !.upCancel = FALSE])
    ELSE IF r = "error"
    THEN UpstreamFinish(SaveEvent(s, "FRONTEND_READ_ERROR", "Exception"))
    ELSE IF r = "eof"
    THEN UpstreamFinish(SaveEvent(s, "FRONTEND_READ_FINISHED", "None"))
    ELSE LET s1 == [s EXCEPT !.feRead = Append(@, chunk)]
             p  == PipelineCall(UpstreamPipelineAttr, b, <<chunk>>)
         IN  IF p.kind = "MiddlewareException"
             THEN UpstreamFinish(SaveEvent(s1, "MIDDLEWARE_ERROR", p.kind))
             ELSE IF p.kind # "ok"
             THEN UpstreamFinish(SaveEvent(s1, "UNKONW", p.kind))
             ELSE IF s1.upAction = "build_connection"
             THEN IF s1.connected
                  THEN UpstreamLoop(s1, p.data)
                  ELSE [s1 EXCEPT !.upTask = "reading"]
             ELSE UpstreamLoop(s1, p.data)

(* backend.flush_write returned r in _do_upstream.  CancelledError is no   *)
(* Exception, so a cancellation leaves the task through the await.         *)
UpstreamAfterWrite(s, r) ==
    IF s.upCancel
    THEN [s EXCEPT !.upTask = "ended", !.upResult = "CANCELLED", !.upCancel = FALSE]
    ELSE IF r = "error"
    THEN UpstreamFinish(SaveEvent(s, "BACKEND_WRITE_ERROR", "Exception"))
    ELSE [s EXCEPT !.beWritten = Append(@, s.upData), !.upData = <<>>,
                   !.upTask = "reading"]

(***************************************************************************)
(* The backward task.                                                      *)
(***************************************************************************)
(* _do_wait_connection has passed: _do_downstream.                         *)
DownstreamEnter(s) ==
    IF ~BackendClosed(s)
    THEN [SaveEvent(s, "BACKEND_START_READING", "None")
            EXCEPT !.downAction = "downstream", !.downTask = "reading"]
    ELSE DownstreamFinish(s)

DownstreamFirstStep(s) ==
    IF s.downCancel
    THEN [s EXCEPT !.downTask = "ended", !.downResult = "CANCELLED", !.downCancel = FALSE]
    ELSE LET s1 == SaveEvent(s, "DOWNSTREAM_TASK_START", "None")
         IN  IF ~s1.connected
             THEN [s1 EXCEPT !.downTask = "waiting"]
             ELSE DownstreamEnter(s1)

(* _connected_event.wait() returned, or the cancellation was raised there. *)
DownstreamAfterWait(s) ==
    IF s.downCancel
    THEN [s EXCEPT !.downTask = "ended", !.downResult = "CANCELLED", !.downCancel = FALSE]
    ELSE DownstreamEnter(s)

DownstreamAfterRead(s, r, chunk, b) ==
    IF s.downCancel
    THEN DownstreamFinish(
           [SaveEvent(s, "BACKEND_READ_ERROR", "CancelledError") EXCEPT !.downCancel = FALSE])
    ELSE IF r = "error"
    THEN DownstreamFinish(SaveEvent(s, "BACKEND_READ_ERROR", "Exception"))
    ELSE IF r = "eof"
    THEN DownstreamFinish(SaveEvent(s, "BACKEND_READ_FINISHED", "None"))
    ELSE LET s1 == [s EXCEPT !.beRead = Append(@, chunk)]
             p  == PipelineCall(DownstreamPipelineAttr, b, <<chunk>>)
         IN  IF p.kind = "MiddlewareException"
             THEN DownstreamFinish(SaveEvent(s1, "MIDDLEWARE_ERROR", p.kind))
             ELSE IF p.kind # "ok"
             THEN DownstreamFinish(SaveEvent(s1, "UNKONW", p.kind))
             ELSE IF DataTruthy(p.data)
             THEN [s1 EXCEPT !.downTask = "writing", !.downData = p.data]
             ELSE [s1 EXCEPT !.downTask = "reading"]

DownstreamAfterWrite(s, r) ==
    IF s.downCancel
    THEN [s EXCEPT !.downTask = "ended", !.downResult = "CANCELLED", !.downCancel = FALSE]
    ELSE IF r = "error"
    THEN DownstreamFinish(SaveEvent(s, "FRONTEND_WRITE_ERROR", "Exception"))
    ELSE [s EXCEPT !.feWritten = Append(@, s.downData), !.downData = <<>>,
                   !.downTask = "reading"]

(***************************************************************************)
(* transport(): cleanup and the finally block.                             *)
(***************************************************************************)
(* transport's inner finally.                                              *)
TransportFinally(s, exc) ==
    [SaveEvent(s, "TRANSPOT_FINISHED", "None")
       EXCEPT !.closed = TRUE, !.closingEvent = TRUE, !.tpc = "done", !.texc = exc]

(* _transport_cleanup after the endpoints: middleware.close awaits each    *)
(* close hook in turn.                                                     *)
CleanupHooks(s, exc) ==
    IF Len(close_callbacks) = 0
    THEN TransportFinally(SaveEvent(s, "CLEANUP_FINISHED", "None"), exc)
    ELSE [s EXCEPT !.tpc = "hooks", !.hook = 1, !.texc = exc]

(* _transport_cleanup, entered with exc pending from _transport_startup.   *)
TransportCleanup(s, exc) ==
    LET s1 == IF s.frontendClosed THEN s
              ELSE SaveEvent([s EXCEPT !.frontendClosed = TRUE], "FRONTEND_CLOSE", "None")
        s2 == IF BackendClosed(s1) THEN s1
              ELSE SaveEvent([s1 EXCEPT !.backendClosed = TRUE], "BACKEND_CLOSE", "None")
    IN  CleanupHooks(s2, exc)

AfterCloseHookNoFinally(s, ok) ==
    LET s1 == [s EXCEPT !.closeCalls = Append(@, close_callbacks[s.hook])]
    IN  IF ~ok THEN [s1 EXCEPT !.tpc = "raised", !.texc = "Exception"]
        ELSE IF s.hook = Len(close_callbacks)
        THEN TransportFinally(SaveEvent(s1, "CLEANUP_FINISHED", "None"), s.texc)
        ELSE [s1 EXCEPT !.hook = @ + 1]

(* One close hook returned (ok) or raised.                                 *)
AfterCloseHook(s, ok) ==
    LET s1 == [s EXCEPT !.closeCalls = Append(@, close_callbacks[s.hook])]
    IN  IF ~ok THEN TransportFinally(s1, "Exception")
        ELSE IF s.hook = Len(close_callbacks)
        THEN TransportFinally(SaveEvent(s1, "CLEANUP_FINISHED", "None"), s.texc)
        ELSE [s1 EXCEPT !.hook = @ + 1]

TaskExc(result) ==
    IF result = "DONE" THEN "None"
    ELSE IF result = "CANCELLED" THEN "CancelledError" ELSE "Exception"

(* save_task_status.                                                       *)
SaveTaskStatus(s, prefix, result) ==
    SaveEvent(s, prefix \o result, IF result = "ERROR" THEN "Exception" ELSE "None")

(* _transport_startup resumes because the task it awaits is done.          *)
StartupResume(s, which) ==
    IF which = "up" /\ s.tpc = "await_up" /\ s.upTask = "ended"
    THEN IF s.upResult # "DONE" THEN TransportCleanup(s, TaskExc(s.upResult))
         ELSE IF s.downRef
         THEN IF s.downTask = "ended"
              THEN TransportCleanup(s, TaskExc(s.downResult))
              ELSE [s EXCEPT !.tpc = "await_down"]
         ELSE TransportCleanup(s, "None")
    ELSE IF which = "down" /\ s.tpc = "await_down" /\ s.downTask = "ended"
    THEN TransportCleanup(s, TaskExc(s.downResult))
    ELSE IF s.tpc = "await_both" /\ s.upTask = "ended" /\ s.downTask = "ended"
    THEN TransportCleanup(s, "None")
    ELSE s

UpstreamDoneCallbacksStatusOnly(s) ==
    LET s1 == SaveTaskStatus(s, "UPSTREAM_TASK_", s.upResult)
        s2 == [s1 EXCEPT !.upNotified = TRUE]
    IN  StartupResume(s2, "up")

(* The done callbacks of the forward task, in the order they were added,   *)
(* then the waiter of the task.                                            *)
UpstreamDoneCallbacks(s) ==
    LET s1 == SaveTaskStatus(s, "UPSTREAM_TASK_", s.upResult)
        s2 == [DoCloseBackend(s1) EXCEPT !.upNotified = TRUE]
    IN  StartupResume(s2, "up")

DownstreamDoneCallbacks(s) ==
    LET s1 == SaveTaskStatus(s, "DOWNSTREAM_TASK_", s.downResult)
        s2 == [DoCloseFrontend(s1) EXCEPT !.downNotified = TRUE]
    IN  StartupResume(s2, "down")

(***************************************************************************)
(* Close: the deferred-cancel timer.                                       *)
(***************************************************************************)
(* TimeHandler.cancel reads self.handler.                                  *)
TimeHandlerCancel(s) ==
    IF "handler" \in TimeHandlerFields
    THEN [s |-> [s EXCEPT !.timers = @ \ {s.trigger}], raised |-> FALSE]
    ELSE [s |-> s, raised |-> TRUE]

Schedule(s, when) == [s EXCEPT !.trigger = when, !.timers = @ \cup {when}]

(* FullDuplexChannel._close at loop time t.                                *)
ChannelClose(s, timeout, now, t) ==
    IF s.closed THEN [s |-> s, raised |-> FALSE]
    ELSE IF timeout = None
    THEN IF s.trigger # None
         THEN LET r == TimeHandlerCancel(s)
              IN  IF r.raised THEN r
                  ELSE [s |-> Cancel([r.s EXCEPT !.trigger = None]), raised |-> FALSE]
         ELSE [s |-> Cancel(s), raised |-> FALSE]
    ELSE LET left == timeout - (IF Truthy(now) THEN t - now ELSE 0)
         IN  IF s.trigger # None
             THEN IF s.trigger <= t + left THEN [s |-> s, raised |-> FALSE]
                  ELSE LET r == TimeHandlerCancel(s)
                       IN  IF r.raised THEN r
                           ELSE [s |-> Schedule(r.s, t + left), raised |-> FALSE]
             ELSE [s |-> Schedule(s, t + left), raised |-> FALSE]

(* The now that ChannelManager.close hands to close_channel: none.         *)
ManagerCloseNow(now) == None

(***************************************************************************)
(* _transport_startup up to its first suspension.                          *)
(***************************************************************************)
SerialStartupWithBackward(s) ==
    [s EXCEPT !.upTask = "created", !.upRef = TRUE, !.upCallbacks = TRUE,
              !.downTask = "created", !.downRef = TRUE, !.downCallbacks = TRUE,
              !.tpc = "await_up"]

(* SerialStartupChannel._transport_startup: the forward task only.         *)
SerialStartup(s) ==
    [s EXCEPT !.upTask = "created", !.upRef = TRUE, !.upCallbacks = TRUE,
              !.tpc = "await_up"]

(* FullDuplexChannel._transport_startup: the first task is created, then   *)
(* setattr(self, 'upstream_task', task).                                   *)
ParallelStartup(s) ==
    LET s1 == [s EXCEPT !.upTask = "created"]
    IN  IF ~CanSetAttr(s.variant, "upstream_task")
        THEN TransportCleanup(s1, "AttributeError")
        ELSE [s1 EXCEPT !.upCallbacks = TRUE,
                        !.downTask = "created", !.downCallbacks = TRUE,
                        !.tpc = "await_both"]

TransportStartup(s) ==
    IF s.variant = "serial" THEN SerialStartup(s) ELSE ParallelStartup(s)

SetBackendOfUnchecked(s) ==
    IF s.variant = "serial"
    THEN [s |-> [SaveEvent(s, "BACKEND_CONNECTED", "None")
                   EXCEPT !.backend = "real", !.downTask = "created",
                          !.downRef = TRUE, !.downCallbacks = TRUE,
                          !.connected = TRUE],
          ok |-> TRUE]
    ELSE [s |-> [SaveEvent([s EXCEPT !.backend = "real"], "BACKEND_CONNECTED", "None")
                   EXCEPT !.connected = TRUE],
          ok |-> TRUE]

(* set_backend of the channel's class; ok is FALSE when its assert fails.  *)
SetBackendOf(s) ==
    IF s.variant = "serial"
    THEN IF s.closed \/ BackendTruthy(s) THEN [s |-> s, ok |-> FALSE]
         ELSE [s |-> [SaveEvent(s, "BACKEND_CONNECTED", "None")
                        EXCEPT !.backend = "real", !.downTask = "created",
                               !.downRef = TRUE, !.downCallbacks = TRUE,
                               !.connected = TRUE],
               ok |-> TRUE]
    ELSE IF BackendTruthy(s) THEN [s |-> s, ok |-> FALSE]
         ELSE [s |-> [SaveEvent([s EXCEPT !.backend = "real"], "BACKEND_CONNECTED", "None")
                        EXCEPT !.connected = TRUE],
               ok |-> TRUE]

(***************************************************************************)
(* Actions.                                                                *)
(***************************************************************************)
(* ChannelManager.pop of a channel whose transport() has just finished.    *)
Registry(c, s) == IF s.tpc = "done" THEN channels \ {c} ELSE channels \cup {c}

(* ChannelManager.transport(frontend, backend), as Engine.on_connect calls *)
(* it (backend = NULL_ENDPOINT) or with a real backend: new_channel's      *)
(* assert, then the constructor (whose set_backend asserts not             *)
(* self.backend, already assigned by Channel.__init__), then transport()   *)
(* up to its first suspension.                                             *)
NewChannelAlways == TRUE

NewChannelAllowed == ~closing

ManagerTransport(backend) ==
    /\ IF ~NewChannelAllowed
       THEN /\ lastError' = "AssertionError:new_channel"
            /\ UNCHANGED <<channels, chan>>
       ELSE \E c \in ChanIds :
              /\ ~chan[c].exists
              /\ \A d \in ChanIds : d < c => chan[d].exists
              /\ IF backend = "real"
                 THEN /\ lastError' = "AssertionError:set_backend"
                      /\ UNCHANGED <<channels, chan>>
                 ELSE LET s == TransportStartup(NewChannel(channel_class))
                      IN  /\ chan' = [chan EXCEPT ![c] = s]
                          /\ channels' = Registry(c, s)
                          /\ UNCHANGED lastError
    /\ UNCHANGED <<channel_class, debug, closing, mclose, clock, pipeVars, loadVars, epVars>>

(* channel.set_backend(endpoint) called with an Endpoint on a live channel *)
(* object.                                                                 *)
SetBackend(c) ==
    /\ chan[c].exists
    /\ LET r == SetBackendOf(chan[c])
       IN  /\ chan' = [chan EXCEPT ![c] = r.s]
           /\ lastError' = IF r.ok THEN lastError ELSE "AssertionError:set_backend"
    /\ UNCHANGED <<channel_class, debug, channels, closing, mclose, clock, pipeVars, loadVars, epVars>>

ChannelStepNoPop(c, s) ==
    /\ chan' = [chan EXCEPT ![c] = s]
    /\ UNCHANGED <<channel_class, debug, channels, lastError, closing, mclose, clock,
                   pipeVars, loadVars, epVars>>

(* A step of channel c that ends with s: when transport() finished in it,  *)
(* ChannelManager.transport's finally pops the channel and the exception   *)
(* reaches the caller.                                                     *)
ChannelStep(c, s) ==
    /\ chan' = [chan EXCEPT ![c] = s]
    /\ channels' = IF chan[c].tpc # "done" /\ s.tpc = "done"
                   THEN channels \ {c} ELSE channels
    /\ UNCHANGED <<channel_class, debug, lastError, closing, mclose, clock, pipeVars, loadVars, epVars>>

HookBehaviours(callbacks) == [1..Len(callbacks) -> Behaviours]

UpstreamStart(c) ==
    /\ chan[c].upTask = "created"
    /\ ChannelStep(c, UpstreamFirstStep(chan[c]))

UpstreamResume(c) ==
    /\ chan[c].upTask \in {"reading", "writing"}
    /\ \E r \in {"data", "eof", "error"}, chunk \in Chunks,
          b \in HookBehaviours(forward_callbacks) :
         ChannelStep(c, IF chan[c].upTask = "reading"
                        THEN UpstreamAfterRead(chan[c], r, chunk, b)
                        ELSE UpstreamAfterWrite(chan[c], r))

UpstreamDone(c) ==
    /\ chan[c].upTask = "ended" /\ chan[c].upCallbacks /\ ~chan[c].upNotified
    /\ ChannelStep(c, UpstreamDoneCallbacks(chan[c]))

DownstreamStart(c) ==
    /\ chan[c].downTask = "created"
    /\ ChannelStep(c, DownstreamFirstStep(chan[c]))

DownstreamResume(c) ==
    /\ \/ chan[c].downTask \in {"reading", "writing"}
       \/ chan[c].downTask = "waiting" /\ (chan[c].connected \/ chan[c].downCancel)
    /\ \E r \in {"data", "eof", "error"}, chunk \in Chunks,
          b \in HookBehaviours(backward_callbacks) :
         ChannelStep(c, CASE chan[c].downTask = "reading"
                               -> DownstreamAfterRead(chan[c], r, chunk, b)
                          [] chan[c].downTask = "writing"
                               -> DownstreamAfterWrite(chan[c], r)
                          [] OTHER -> DownstreamAfterWait(chan[c]))

DownstreamDone(c) ==
    /\ chan[c].downTask = "ended" /\ chan[c].downCallbacks /\ ~chan[c].downNotified
    /\ ChannelStep(c, DownstreamDoneCallbacks(chan[c]))

CleanupHook(c) ==
    /\ chan[c].tpc = "hooks"
    /\ \E ok \in BOOLEAN : ChannelStep(c, AfterCloseHook(chan[c], ok))

(* loop.call_at(when, self.cancel) fires.                                  *)
TimerFire(c) ==
    /\ \E w \in chan[c].timers :
         /\ w <= clock
         /\ ChannelStep(c, Cancel([chan[c] EXCEPT !.timers = @ \ {w}]))

(* Time passes; a due timer runs first.                                    *)
Tick ==
    /\ clock < MaxTime
    /\ \A c \in ChanIds : \A w \in chan[c].timers : w > clock
    /\ clock' = clock + 1
    /\ UNCHANGED <<channel_class, debug, channels, closing, chan, mclose, lastError,
                   pipeVars, loadVars, epVars>>

(* ChannelManager.close(timeout, now): one close_channel task per channel  *)
(* registered now.                                                         *)
ManagerClose(timeout, now) ==
    /\ Len(mclose) < MaxCloseCalls
    /\ closing' = TRUE
    /\ mclose' = Append(mclose, [timeout |-> timeout, now |-> now,
                                 tasks |-> [c \in channels |-> "created"],
                                 returned |-> channels = {}])
    /\ UNCHANGED <<channel_class, debug, channels, chan, clock, lastError, pipeVars, loadVars, epVars>>

(* close_channel's first step: channel.close runs _close and waits for the *)
(* closing flag; an exception of _close leaves through the finally.        *)
CloserStart(k, c) ==
    /\ k \in DOMAIN mclose
    /\ c \in DOMAIN mclose[k].tasks
    /\ mclose[k].tasks[c] = "created"
    /\ IF chan[c].closed
       THEN /\ mclose' = [mclose EXCEPT ![k].tasks[c] = "done"]
            /\ channels' = channels \ {c}
            /\ UNCHANGED chan
       ELSE LET r == ChannelClose(chan[c], mclose[k].timeout,
                                  ManagerCloseNow(mclose[k].now), clock)
            IN  /\ chan' = [chan EXCEPT ![c] = r.s]
                /\ mclose' = [mclose EXCEPT ![k].tasks[c] =
                                 IF r.raised THEN "error" ELSE "waiting"]
                /\ channels' = IF r.raised THEN channels \ {c} ELSE channels
    /\ UNCHANGED <<channel_class, debug, closing, clock, lastError, pipeVars, loadVars, epVars>>

(* _closing_event.wait() returned in channel.close.                        *)
CloserResume(k, c) ==
    /\ k \in DOMAIN mclose
    /\ c \in DOMAIN mclose[k].tasks
    /\ mclose[k].tasks[c] = "waiting"
    /\ chan[c].closingEvent
    /\ chan' = [chan EXCEPT ![c].closed = TRUE]
    /\ mclose' = [mclose EXCEPT ![k].tasks[c] = "done"]
    /\ channels' = channels \ {c}
    /\ UNCHANGED <<channel_class, debug, closing, clock, lastError, pipeVars, loadVars, epVars>>

(* asyncio.wait returns in ChannelManager.close.                           *)
ManagerCloseReturn(k) ==
    /\ k \in DOMAIN mclose
    /\ ~mclose[k].returned
    /\ \A c \in DOMAIN mclose[k].tasks : mclose[k].tasks[c] \in {"done", "error"}
    /\ mclose' = [mclose EXCEPT ![k].returned = TRUE]
    /\ UNCHANGED <<channel_class, debug, channels, closing, chan, clock, lastError,
                   pipeVars, loadVars, epVars>>

Timeouts == Durations \cup {None}

Nows == Times \cup {None}

(* A caller of ChannelManager.close passes a timeout and a clock reading   *)
(* it took at or before the call.                                          *)
ManagerCloseCall ==
    \E timeout \in Timeouts, now \in Nows : now <= clock /\ ManagerClose(timeout, now)

(***************************************************************************)
(* An Endpoint: closed, and how often its writer's close() was called.     *)
(* raised tells whether the last close() call let an exception through.    *)
(***************************************************************************)
NewEndpoint == [closed |-> FALSE, writerCloses |-> 0, calls |-> 0, raised |-> FALSE]

EndpointCloseUnguarded(e, ok) ==
    [e EXCEPT !.closed = TRUE, !.writerCloses = @ + 1, !.calls = @ + 1, !.raised = ~ok]

(* Endpoint.close(); ok: writer.close() returns, otherwise it raises.      *)
EndpointClose(e, ok) ==
    IF e.closed THEN [e EXCEPT !.calls = @ + 1, !.raised = FALSE]
    ELSE [e EXCEPT !.closed = TRUE, !.writerCloses = @ + 1, !.calls = @ + 1, !.raised = ~ok]

InitManager ==
    /\ endpoint = NewEndpoint
    /\ channel_class \in {"serial", "parallel"}
    /\ debug \in BOOLEAN
    /\ channels = {}
    /\ closing = FALSE
    /\ chan = [c \in ChanIds |-> Unborn]
    /\ mclose = <<>>
    /\ clock = 1
    /\ lastError = "None"

InitPipeIdle ==
    /\ middlewares = <<>>
    /\ forward_callbacks = <<>>
    /\ backward_callbacks = <<>>
    /\ close_callbacks = <<>>
    /\ setupIdx = 0
    /\ setupDone = <<>>
    /\ pipe = [dir |-> "none", input |-> <<>>, kind |-> "none", data |-> <<>>, calls |-> <<>>]

InitLoadIdle ==
    /\ MIDDLEWARES = <<>>
    /\ sorted_confs = <<>>
    /\ loadIdx = 0
    /\ loadState = "loaded"

(* The manager after setup with n middlewares that override close only.    *)
Init ==
    /\ InitManager
    /\ InitLoadIdle
    /\ \E n \in 0..MaxCloseHooks :
         /\ middlewares = [i \in 1..n |-> [tag |-> i, overrides |-> {"close"}]]
         /\ close_callbacks = [i \in 1..n |-> i]
         /\ setupDone = [i \in 1..n |-> i]
         /\ setupIdx = n
    /\ forward_callbacks = <<>>
    /\ backward_callbacks = <<>>
    /\ pipe = [dir |-> "none", input |-> <<>>, kind |-> "none", data |-> <<>>, calls |-> <<>>]

Next ==
    \/ \E backend \in {"null", "real"} : ManagerTransport(backend)
    \/ \E c \in ChanIds : SetBackend(c)
    \/ \E c \in ChanIds : UpstreamStart(c)
    \/ \E c \in ChanIds : UpstreamResume(c)
    \/ \E c \in ChanIds : UpstreamDone(c)
    \/ \E c \in ChanIds : DownstreamStart(c)
    \/ \E c \in ChanIds : DownstreamResume(c)
    \/ \E c \in ChanIds : DownstreamDone(c)
    \/ \E c \in ChanIds : CleanupHook(c)
    \/ \E c \in ChanIds : TimerFire(c)
    \/ Tick
    \/ ManagerCloseCall
    \/ \E k \in 1..MaxCloseCalls, c \in ChanIds : CloserStart(k, c)
    \/ \E k \in 1..MaxCloseCalls, c \in ChanIds : CloserResume(k, c)
    \/ \E k \in 1..MaxCloseCalls : ManagerCloseReturn(k)

Spec == Init /\ [][Next]_vars

(* The loop runs every ready callback; every endpoint read or write and    *)
(* every hook call returns or raises.                                      *)
Fairness ==
    \A c \in ChanIds :
      /\ WF_vars(UpstreamStart(c)) /\ WF_vars(UpstreamResume(c)) /\ WF_vars(UpstreamDone(c))
      /\ WF_vars(DownstreamStart(c)) /\ WF_vars(DownstreamResume(c))
      /\ WF_vars(DownstreamDone(c)) /\ WF_vars(CleanupHook(c))

FairSpec == Spec /\ Fairness

(***************************************************************************)
(* The middleware manager: setup and the pipeline as its callers see it.   *)
(* A middleware instance is [tag, overrides]: its tag and the hooks its    *)
(* class overrides.                                                        *)
(***************************************************************************)
Methods == {"forward", "backward", "close"}

(* _register_callbacks: forward and close are appended, backward is        *)
(* inserted at 0; a hook the class does not override is skipped.           *)
RegisterForward(callbacks, m) ==
    IF "forward" \in m.overrides THEN Append(callbacks, m.tag) ELSE callbacks

RegisterBackwardAppended(callbacks, m) ==
    IF "backward" \in m.overrides THEN Append(callbacks, m.tag) ELSE callbacks

RegisterBackward(callbacks, m) ==
    IF "backward" \in m.overrides THEN <<m.tag>> \o callbacks ELSE callbacks

RegisterClose(callbacks, m) ==
    IF "close" \in m.overrides THEN Append(callbacks, m.tag) ELSE callbacks

(* One turn of _setup's loop: middleware.setup() returns (ok) or raises.   *)
SetupStep ==
    /\ setupIdx < Len(middlewares)
    /\ \E ok \in BOOLEAN :
         LET m == middlewares[setupIdx + 1]
         IN  /\ forward_callbacks' = IF ok THEN RegisterForward(forward_callbacks, m)
                                     ELSE forward_callbacks
             /\ backward_callbacks' = IF ok THEN RegisterBackward(backward_callbacks, m)
                                      ELSE backward_callbacks
             /\ close_callbacks' = IF ok THEN RegisterClose(close_callbacks, m)
                                   ELSE close_callbacks
             /\ setupDone' = IF ok THEN Append(setupDone, m.tag) ELSE setupDone
    /\ setupIdx' = setupIdx + 1
    /\ UNCHANGED <<middlewares, pipe, mgrVars, loadVars, epVars>>

PipeResult(dir, input, r) ==
    [dir |-> dir, input |-> input, kind |-> r.kind, data |-> r.data, calls |-> r.calls]

(* MiddlewareManager.forward(connection, data) once setup has finished.    *)
PipeForward ==
    /\ setupIdx = Len(middlewares)
    /\ \E chunk \in Chunks, b \in HookBehaviours(forward_callbacks) :
         pipe' = PipeResult("forward", <<chunk>>, Forward(b, <<chunk>>))
    /\ UNCHANGED <<middlewares, forward_callbacks, backward_callbacks, close_callbacks,
                   setupIdx, setupDone, mgrVars, loadVars, epVars>>

(* MiddlewareManager.backward(connection, data).                           *)
PipeBackward ==
    /\ setupIdx = Len(middlewares)
    /\ \E chunk \in Chunks, b \in HookBehaviours(backward_callbacks) :
         pipe' = PipeResult("backward", <<chunk>>, Backward(b, <<chunk>>))
    /\ UNCHANGED <<middlewares, forward_callbacks, backward_callbacks, close_callbacks,
                   setupIdx, setupDone, mgrVars, loadVars, epVars>>

InitManagerIdle ==
    /\ endpoint = NewEndpoint
    /\ channel_class = "serial"
    /\ debug = FALSE
    /\ channels = {}
    /\ closing = FALSE
    /\ chan = [c \in ChanIds |-> Unborn]
    /\ mclose = <<>>
    /\ clock = 1
    /\ lastError = "None"

InitPipe ==
    /\ InitManagerIdle
    /\ InitLoadIdle
    /\ \E n \in 0..MaxMiddlewares :
         \E ov \in [1..n -> SUBSET Methods] :
           middlewares = [i \in 1..n |-> [tag |-> i, overrides |-> ov[i]]]
    /\ forward_callbacks = <<>>
    /\ backward_callbacks = <<>>
    /\ close_callbacks = <<>>
    /\ setupIdx = 0
    /\ setupDone = <<>>
    /\ pipe = [dir |-> "none", input |-> <<>>, kind |-> "none", data |-> <<>>, calls |-> <<>>]

NextPipe == SetupStep \/ PipeForward \/ PipeBackward

SpecPipe == InitPipe /\ [][NextPipe]_vars

(***************************************************************************)
(* load_middlewares.  A configured entry is [cls, id, opt]: opt stands for *)
(* the entry's other options, which tell two entries of one class and id   *)
(* apart; here it is the entry's position in config.MIDDLEWARES.           *)
(***************************************************************************)
Classes == {"A", "B"}
Ids == {10, 20}

InsertAt(q, idx, e) == SubSeq(q, 1, idx - 1) \o <<e>> \o SubSeq(q, idx, Len(q))

(* insert(conf): the loop over enumerate(sorted_confs) from position idx.  *)
RECURSIVE InsertFrom(_, _, _)
InsertFrom(q, conf, idx) ==
    IF idx > Len(q) THEN Append(q, conf)
    ELSE IF conf.id = q[idx].id /\ conf.cls = q[idx].cls
    THEN [q EXCEPT ![idx] = conf]
    ELSE IF q[idx].id > conf.id
    THEN InsertAt(q, idx, conf)
    ELSE InsertFrom(q, conf, idx + 1)

RECURSIVE InsertFromAtOrAfter(_, _, _)
InsertFromAtOrAfter(q, conf, idx) ==
    IF idx > Len(q) THEN Append(q, conf)
    ELSE IF conf.id = q[idx].id /\ conf.cls = q[idx].cls
    THEN [q EXCEPT ![idx] = conf]
    ELSE IF q[idx].id >= conf.id
    THEN InsertAt(q, idx, conf)
    ELSE InsertFromAtOrAfter(q, conf, idx + 1)

InsertBeforeEqual(q, conf) == InsertFromAtOrAfter(q, conf, 1)

Insert(q, conf) == InsertFrom(q, conf, 1)

(* remove(conf) assigns sorted_confs without declaring it nonlocal, so the *)
(* name is local to remove and its first read raises.                      *)
RemoveDeclaresNonlocal == FALSE

Remove(q, conf) ==
    IF RemoveDeclaresNonlocal
    THEN [q |-> SelectSeq(q, LAMBDA e : e.cls # conf.cls), exc |-> "None"]
    ELSE [q |-> q, exc |-> "UnboundLocalError"]

(* One turn of the loop over config.MIDDLEWARES.                           *)
LoadStep ==
    /\ loadState = "loading"
    /\ loadIdx < Len(MIDDLEWARES)
    /\ LET conf == MIDDLEWARES[loadIdx + 1]
       IN  IF conf.id = None
           THEN LET r == Remove(sorted_confs, conf)
                IN  /\ sorted_confs' = r.q
                    /\ loadState' = IF r.exc = "None" THEN loadState ELSE r.exc
           ELSE /\ sorted_confs' = Insert(sorted_confs, conf)
                /\ UNCHANGED loadState
    /\ loadIdx' = loadIdx + 1
    /\ UNCHANGED <<MIDDLEWARES, mgrVars, pipeVars, epVars>>

(* The loop over sorted_confs: each class is instantiated; an entry whose  *)
(* constructor raises (those in failed) is logged and skipped.             *)
Instantiate ==
    /\ loadState = "loading"
    /\ loadIdx = Len(MIDDLEWARES)
    /\ \E failed \in SUBSET (1..Len(sorted_confs)) :
         middlewares' =
           LET kept == SelectSeq([i \in 1..Len(sorted_confs) |-> i],
                                 LAMBDA i : i \notin failed)
           IN  [j \in 1..Len(kept) |->
                   [tag |-> sorted_confs[kept[j]].opt, overrides |-> Methods]]
    /\ loadState' = "loaded"
    /\ UNCHANGED <<MIDDLEWARES, sorted_confs, loadIdx, mgrVars,
                   forward_callbacks, backward_callbacks, close_callbacks,
                   setupIdx, setupDone, pipe, epVars>>

InitLoad ==
    /\ InitManagerIdle
    /\ InitPipeIdle
    /\ \E n \in 0..MaxConfs :
         \E k \in [1..n -> Classes \X (Ids \cup {None})] :
           MIDDLEWARES = [i \in 1..n |-> [cls |-> k[i][1], id |-> k[i][2], opt |-> i]]
    /\ sorted_confs = <<>>
    /\ loadIdx = 0
    /\ loadState = "loading"

NextLoad == LoadStep \/ Instantiate

SpecLoad == InitLoad /\ [][NextLoad]_vars

(***************************************************************************)
(* A serial-start manager on a debug loop after setup with one middleware  *)
(* that overrides forward, backward and close.                             *)
(***************************************************************************)
InitHook ==
    /\ InitManager
    /\ channel_class = "serial"
    /\ debug
    /\ InitLoadIdle
    /\ middlewares = <<[tag |-> 1, overrides |-> {"forward", "backward", "close"}]>>
    /\ forward_callbacks = <<1>>
    /\ backward_callbacks = <<1>>
    /\ close_callbacks = <<1>>
    /\ setupDone = <<1>>
    /\ setupIdx = 1
    /\ pipe = [dir |-> "none", input |-> <<>>, kind |-> "none", data |-> <<>>, calls |-> <<>>]

SpecHook == InitHook /\ [][Next]_vars

(***************************************************************************)
(* Callers that close: channel.close(timeout, now) called on a channel     *)
(* object by any holder of it, and close() called on an Endpoint, on a     *)
(* loop without debug and a manager without close hooks.                   *)
(***************************************************************************)
(* The first step of channel.close: _close runs, then the caller waits for *)
(* the closing flag; on waking it finds closed already set.  An exception  *)
(* of _close reaches the caller.                                           *)
ChannelCloseCall(c, timeout, now) ==
    /\ chan[c].exists
    /\ now <= clock
    /\ LET r == ChannelClose(chan[c], timeout, now, clock)
       IN  /\ chan' = [chan EXCEPT ![c] = r.s]
           /\ lastError' = IF r.raised THEN "AttributeError:handler" ELSE "None"
    /\ UNCHANGED <<channel_class, debug, channels, closing, mclose, clock,
                   pipeVars, loadVars, epVars>>

ChannelCloseAny ==
    \E c \in ChanIds, timeout \in Timeouts, now \in Nows : ChannelCloseCall(c, timeout, now)

EndpointCloseCall ==
    /\ endpoint.calls < MaxEndpointCalls
    /\ \E ok \in BOOLEAN : endpoint' = EndpointClose(endpoint, ok)
    /\ UNCHANGED <<mgrVars, pipeVars, loadVars>>

InitClose ==
    /\ Init
    /\ ~debug
    /\ close_callbacks = <<>>

NextClose ==
    \/ \E backend \in {"null", "real"} : ManagerTransport(backend)
    \/ \E c \in ChanIds : SetBackend(c)
    \/ \E c \in ChanIds : UpstreamStart(c)
    \/ \E c \in ChanIds : UpstreamResume(c)
    \/ \E c \in ChanIds : UpstreamDone(c)
    \/ \E c \in ChanIds : DownstreamStart(c)
    \/ \E c \in ChanIds : DownstreamResume(c)
    \/ \E c \in ChanIds : DownstreamDone(c)
    \/ \E c \in ChanIds : TimerFire(c)
    \/ Tick
    \/ ChannelCloseAny
    \/ EndpointCloseCall

SpecClose == InitClose /\ [][NextClose]_vars

(***************************************************************************)
(* The registry under every way a close_channel call can end: the manager  *)
(* closes, any holder of a channel calls channel.close on it, and a        *)
(* close_channel task is cancelled while it waits inside channel.close, on *)
(* a loop without debug and a manager without close hooks.                 *)
(***************************************************************************)
(* CancelledError is raised at _closing_event.wait(); close_channel's      *)
(* finally pops the channel and the task ends with the exception.          *)
CloserCancel(k, c) ==
    /\ k \in DOMAIN mclose
    /\ c \in DOMAIN mclose[k].tasks
    /\ mclose[k].tasks[c] = "waiting"
    /\ mclose' = [mclose EXCEPT ![k].tasks[c] = "error"]
    /\ channels' = channels \ {c}
    /\ UNCHANGED <<channel_class, debug, closing, chan, clock, lastError,
                   pipeVars, loadVars, epVars>>

NextRegistry ==
    \/ \E backend \in {"null", "real"} : ManagerTransport(backend)
    \/ \E c \in ChanIds : SetBackend(c)
    \/ \E c \in ChanIds : UpstreamStart(c)
    \/ \E c \in ChanIds : UpstreamResume(c)
    \/ \E c \in ChanIds : UpstreamDone(c)
    \/ \E c \in ChanIds : DownstreamStart(c)
    \/ \E c \in ChanIds : DownstreamResume(c)
    \/ \E c \in ChanIds : DownstreamDone(c)
    \/ \E c \in ChanIds : TimerFire(c)
    \/ Tick
    \/ ChannelCloseAny
    \/ ManagerCloseCall
    \/ \E k \in 1..MaxCloseCalls, c \in ChanIds : CloserStart(k, c)
    \/ \E k \in 1..MaxCloseCalls, c \in ChanIds : CloserResume(k, c)
    \/ \E k \in 1..MaxCloseCalls, c \in ChanIds : CloserCancel(k, c)
    \/ \E k \in 1..MaxCloseCalls : ManagerCloseReturn(k)

SpecRegistry == InitClose /\ [][NextRegistry]_vars

(***************************************************************************)
(* Properties.                                                             *)
(***************************************************************************)
HasEvent(s, ev) == \E i \in 1..Len(s.events) : s.events[i].event = ev

EventIndex(s, ev) ==
    IF HasEvent(s, ev)
    THEN CHOOSE i \in 1..Len(s.events) :
           /\ s.events[i].event = ev
           /\ \A j \in 1..(i - 1) : s.events[j].event # ev
    ELSE 0

Reverse(q) == [i \in 1..Len(q) |-> q[Len(q) + 1 - i]]

ErrorEvents ==
    {"FRONTEND_READ_ERROR", "BACKEND_READ_ERROR", "FRONTEND_WRITE_ERROR",
     "BACKEND_WRITE_ERROR", "MIDDLEWARE_ERROR", "UNKONW"}

(* C1: every channel whose transport() has started eventually has emitted  *)
(* TRANSPOT_FINISHED (when events are recorded), has closed = true and has *)
(* its closing flag set, whatever errors and cancellations occur.          *)
C1_TransportAlwaysFinishes ==
    \A c \in ChanIds :
      (chan[c].tpc # "idle") ~>
         (/\ chan[c].closed
          /\ chan[c].closingEvent
          /\ (debug => HasEvent(chan[c], "TRANSPOT_FINISHED")))

C1_Witness ==
    \E c \in ChanIds :
      /\ chan[c].closed /\ chan[c].closingEvent
      /\ HasEvent(chan[c], "TRANSPOT_FINISHED")
      /\ HasEvent(chan[c], "FRONTEND_READ_ERROR")
      /\ chan[c].texc = "Exception"

(* C2: closed = true implies that both transfer tasks that were started    *)
(* have terminated and that both endpoints are closed.                     *)
C2_ClosedImpliesTasksDoneEndpointsClosed ==
    \A c \in ChanIds :
      chan[c].closed =>
        /\ chan[c].upTask \in {"none", "ended"}
        /\ chan[c].downTask \in {"none", "ended"}
        /\ chan[c].frontendClosed
        /\ BackendClosed(chan[c])

(* C3: the deferred-cancel timer that manager.close(timeout=T, now=t0)     *)
(* sets on a live channel is due no later than t0 + T.                     *)
C3_DeadlineMeasuredFromCallerNow ==
    \A k \in DOMAIN mclose : \A c \in DOMAIN mclose[k].tasks :
      (/\ mclose[k].tasks[c] = "waiting"
       /\ mclose[k].timeout # None
       /\ mclose[k].now # None)
      => (/\ chan[c].trigger # None
          /\ chan[c].trigger <= mclose[k].now + mclose[k].timeout)

(* C4: no error event of a channel carries a cancellation.                 *)
C4_CancellationIsSilent ==
    \A c \in ChanIds : \A i \in 1..Len(chan[c].events) :
      chan[c].events[i].event \in ErrorEvents => chan[c].events[i].exc # "CancelledError"

(* C5: once the manager is closing it stays closing and no step adds a     *)
(* channel to its registry.                                                *)
C5_NoNewChannelsWhileClosing ==
    [][closing => (closing' /\ channels' \subseteq channels)]_vars

C5_Witness ==
    /\ closing
    /\ lastError = "AssertionError:new_channel"
    /\ \E c \in ChanIds : ~chan[c].exists

(* C6: when the backend was connected before the forward task started and  *)
(* the forward task has ended without a transport error or a cancellation, *)
(* the chunks written to the backend are the chunks read from the          *)
(* frontend, in order (the middleware chain is the identity).              *)
C6_ByteFaithfulness ==
    \A c \in ChanIds :
      (/\ debug
       /\ chan[c].upTask = "ended" /\ chan[c].upResult = "DONE"
       /\ chan[c].backend = "real"
       /\ EventIndex(chan[c], "BACKEND_CONNECTED") < EventIndex(chan[c], "UPSTREAM_TASK_START")
       /\ ~HasEvent(chan[c], "FRONTEND_READ_ERROR")
       /\ ~HasEvent(chan[c], "BACKEND_WRITE_ERROR"))
      => chan[c].beWritten = [i \in 1..Len(chan[c].feRead) |-> <<chan[c].feRead[i]>>]

(* C7: when _do_build_connection has a chunk through the pipeline and the  *)
(* backend is connected by then, the forward slot advances to upstream     *)
(* with the pipeline's output for that chunk as the value to write first.  *)
C7_HandshakeBypass ==
    [][\A c \in ChanIds :
         (/\ chan[c].upTask = "reading" /\ chan[c].upAction = "build_connection"
          /\ chan[c].connected /\ BackendTruthy(chan[c]) /\ ~chan[c].upCancel
          /\ Len(chan'[c].feRead) = Len(chan[c].feRead) + 1)
         => (/\ chan'[c].upAction = "upstream"
             /\ chan'[c].upData = <<chan'[c].feRead[Len(chan'[c].feRead)]>>
             /\ chan'[c].beWritten = <<>>)]_vars

(* C8: a hook that returns an empty value or none for a chunk is the last  *)
(* hook invoked for that chunk.                                            *)
C8_DropShortCircuits ==
    \A i \in 1..Len(pipe.calls) :
      pipe.calls[i].ret \in {<<>>, NoneData} => i = Len(pipe.calls)

OverridesOf(tag) == (CHOOSE m \in SeqToSet(middlewares) : m.tag = tag).overrides

Overriding(method) == SelectSeq(setupDone, LAMBDA t : method \in OverridesOf(t))

(* C9: the forward hooks are those of the middlewares set up, in setup     *)
(* order, the backward hooks in the reverse order, the close hooks in      *)
(* setup order, a hook that is not overridden is not registered, and a     *)
(* pipeline call invokes the hooks in list order, each on the value the    *)
(* one before returned.                                                    *)
C9_OnionOrdering ==
    /\ forward_callbacks = Overriding("forward")
    /\ backward_callbacks = Reverse(Overriding("backward"))
    /\ close_callbacks = Overriding("close")
    /\ pipe.dir # "none" =>
         LET cbs == IF pipe.dir = "forward" THEN forward_callbacks ELSE backward_callbacks
             n   == Len(pipe.calls)
         IN  /\ n <= Len(cbs)
             /\ \A i \in 1..n :
                  /\ pipe.calls[i].mw = cbs[i]
                  /\ pipe.calls[i].arg = IF i = 1 THEN pipe.input ELSE pipe.calls[i - 1].ret
             /\ \A i, j \in 1..n :
                  i < j => IF pipe.dir = "forward"
                           THEN pipe.calls[i].mw < pipe.calls[j].mw
                           ELSE pipe.calls[i].mw > pipe.calls[j].mw
             /\ (pipe.kind = "ok" /\ n = Len(cbs)) =>
                  pipe.data = IF n = 0 THEN pipe.input ELSE pipe.calls[n].ret

C9_Witness ==
    /\ Len(forward_callbacks) = 2 /\ Len(backward_callbacks) = 2
    /\ pipe.dir = "backward" /\ pipe.kind = "ok"
    /\ pipe.data = <<"1", "2", "x">>
    /\ pipe.calls[1].mw = 2 /\ pipe.calls[2].mw = 1

Processed == SubSeq(MIDDLEWARES, 1, loadIdx)

SamePair(a, b) == a.id = b.id /\ a.cls = b.cls

FirstPos(conf) == CHOOSE i \in 1..loadIdx :
                    /\ SamePair(MIDDLEWARES[i], conf)
                    /\ \A j \in 1..(i - 1) : ~SamePair(MIDDLEWARES[j], conf)

LastPos(conf) == CHOOSE i \in 1..loadIdx :
                   /\ SamePair(MIDDLEWARES[i], conf)
                   /\ \A j \in (i + 1)..loadIdx : ~SamePair(MIDDLEWARES[j], conf)

(* C10: while entries with non-null ids are loaded, sorted_confs is sorted *)
(* ascending by id, holds one entry per (id, class) configured so far,     *)
(* namely the last one configured, and entries of equal id stand in the    *)
(* order in which their (id, class) first appeared.                        *)
C10_SortedUniqueReplaced ==
    loadState = "loading" =>
      LET n == Len(sorted_confs)
      IN  /\ \A i \in 1..(n - 1) : sorted_confs[i].id <= sorted_confs[i + 1].id
          /\ \A i, j \in 1..n : i # j => ~SamePair(sorted_confs[i], sorted_confs[j])
          /\ \A i \in 1..n : sorted_confs[i] \in SeqToSet(Processed)
          /\ \A k \in 1..loadIdx :
               \E i \in 1..n : sorted_confs[i] = MIDDLEWARES[LastPos(MIDDLEWARES[k])]
          /\ \A i, j \in 1..n :
               (i < j /\ sorted_confs[i].id = sorted_confs[j].id)
               => FirstPos(sorted_confs[i]) < FirstPos(sorted_confs[j])

C10_Witness ==
    /\ loadState = "loading"
    /\ loadIdx = 3
    /\ Len(sorted_confs) = 2
    /\ sorted_confs[1].id = sorted_confs[2].id
    /\ sorted_confs[1].opt = 3
    /\ sorted_confs[2].opt = 2

(* C11: an entry with a null id removes every entry of its class loaded    *)
(* before it, and loading goes on: after such an entry was processed the   *)
(* loader has not stopped with an exception and sorted_confs holds no      *)
(* entry of that class configured before it.                               *)
C11_NullIdRemovesClass ==
    \A k \in 1..loadIdx :
      MIDDLEWARES[k].id = None =>
        /\ loadState \in {"loading", "loaded"}
        /\ \A i \in 1..Len(sorted_confs) :
             sorted_confs[i].cls = MIDDLEWARES[k].cls => sorted_confs[i].opt > k

(* C12: once a channel is closed every registered close hook has been      *)
(* invoked exactly once, in registration order, and CLEANUP_FINISHED is in *)
(* the log, whether or not a close hook raised.                            *)
C12_CloseHooksAllRun ==
    \A c \in ChanIds :
      chan[c].closed =>
        /\ chan[c].closeCalls = close_callbacks
        /\ (debug => HasEvent(chan[c], "CLEANUP_FINISHED"))

(* C13: a chunk handed to the middleware chain never ends its direction    *)
(* with UNKONW for a non-cancellation exception (a failing hook is         *)
(* reported as MIDDLEWARE_ERROR), and MIDDLEWARE_ERROR is followed, in     *)
(* this order, by BACKEND_CLOSE, FRONTEND_CLOSE and CLEANUP_FINISHED.      *)
C13_HookFailureIsMiddlewareError ==
    \A c \in ChanIds :
      /\ \A i \in 1..Len(chan[c].events) :
           chan[c].events[i].event = "UNKONW" => chan[c].events[i].exc = "CancelledError"
      /\ \A i, j \in 1..Len(chan[c].events) :
           (/\ chan[c].events[i].event = "MIDDLEWARE_ERROR"
            /\ chan[c].events[j].event \in {"BACKEND_CLOSE", "FRONTEND_CLOSE", "CLEANUP_FINISHED"})
           => i < j
      /\ (HasEvent(chan[c], "BACKEND_CLOSE") /\ HasEvent(chan[c], "FRONTEND_CLOSE")
          /\ HasEvent(chan[c], "MIDDLEWARE_ERROR"))
         => EventIndex(chan[c], "BACKEND_CLOSE") < EventIndex(chan[c], "FRONTEND_CLOSE")

(* C14: in a channel's event log CLEANUP_FINISHED precedes                 *)
(* TRANSPOT_FINISHED, and TRANSPOT_FINISHED is the last event.             *)
C14_FinishEventsLast ==
    \A c \in ChanIds :
      HasEvent(chan[c], "TRANSPOT_FINISHED") =>
        /\ HasEvent(chan[c], "CLEANUP_FINISHED")
        /\ EventIndex(chan[c], "CLEANUP_FINISHED") < EventIndex(chan[c], "TRANSPOT_FINISHED")
        /\ chan[c].events[Len(chan[c].events)].event = "TRANSPOT_FINISHED"

TaskStatusEvents ==
    {"UPSTREAM_TASK_START", "UPSTREAM_TASK_DONE", "UPSTREAM_TASK_ERROR",
     "UPSTREAM_TASK_CANCELLED", "DOWNSTREAM_TASK_START", "DOWNSTREAM_TASK_DONE",
     "DOWNSTREAM_TASK_ERROR", "DOWNSTREAM_TASK_CANCELLED"}

EndpointFailureEvents ==
    {"FRONTEND_READ_ERROR", "BACKEND_READ_ERROR", "FRONTEND_WRITE_ERROR",
     "BACKEND_WRITE_ERROR"}

TransportEventNames(s) ==
    LET q == SelectSeq(s.events, LAMBDA e : e.event \notin TaskStatusEvents)
    IN  [i \in 1..Len(q) |-> q[i].event]

EchoEvents ==
    <<"FRONTEND_CONNECTED", "FRONTEND_START_READING", "BACKEND_CONNECTED",
      "FRONTEND_READ_FINISHED", "BACKEND_READ_FINISHED", "BACKEND_CLOSE",
      "FRONTEND_CLOSE", "CLEANUP_FINISHED", "TRANSPOT_FINISHED">>

(* C15: a serial-start channel whose backend is set while the first chunk  *)
(* is in the forward chain, that is never asked to close, whose endpoints  *)
(* never fail and whose close hook returns, ends with the transport events *)
(* of the echo proxy, in that order.                                       *)
C15_EchoProxyEvents ==
    \A c \in ChanIds :
      (/\ chan[c].closed /\ chan[c].variant = "serial"
       /\ mclose = <<>>
       /\ chan[c].backend = "real"
       /\ chan[c].feRead # <<>>
       /\ EventIndex(chan[c], "BACKEND_CONNECTED")
            = EventIndex(chan[c], "FRONTEND_START_READING") + 1
       /\ \A i \in 1..Len(chan[c].events) :
            chan[c].events[i].event \notin EndpointFailureEvents
       /\ chan[c].texc = "None")
      => TransportEventNames(chan[c]) = EchoEvents

(* C17: a serial-start channel with the null backend on which set_backend  *)
(* is never called, that is never asked to close, whose frontend read      *)
(* never fails and whose close hooks return, is closed having logged       *)
(* FRONTEND_READ_FINISHED and no failure or error event, with the frontend *)
(* closed and nothing written to or closed on the null backend.            *)
C17_NullBackendTraffic ==
    \A c \in ChanIds :
      (/\ debug
       /\ chan[c].closed /\ chan[c].variant = "serial"
       /\ chan[c].backend = "null"
       /\ mclose = <<>>
       /\ ~HasEvent(chan[c], "FRONTEND_READ_ERROR")
       /\ chan[c].texc # "Exception")
      => /\ HasEvent(chan[c], "FRONTEND_READ_FINISHED")
         /\ \A i \in 1..Len(chan[c].events) : chan[c].events[i].event \notin ErrorEvents
         /\ ~HasEvent(chan[c], "BACKEND_CLOSE")
         /\ chan[c].frontendClosed
         /\ chan[c].beWritten = <<>>
         /\ ~chan[c].backendClosed

(* C16: close() on an endpoint that is closed changes nothing and does not *)
(* raise, the writer is closed at most once, an endpoint or a channel that *)
(* is closed stays closed, and channel.close on a closed channel returns   *)
(* without changing the channel or raising.                                *)
C16_CloseIdempotent ==
    [][/\ endpoint.closed => endpoint'.closed
       /\ (endpoint.closed /\ endpoint'.calls # endpoint.calls) =>
            /\ endpoint'.writerCloses = endpoint.writerCloses
            /\ ~endpoint'.raised
       /\ endpoint'.writerCloses <= 1
       /\ \A c \in ChanIds :
            /\ chan[c].closed => chan'[c].closed
            /\ chan[c].frontendClosed => chan'[c].frontendClosed
            /\ chan[c].backendClosed => chan'[c].backendClosed
            /\ \A timeout \in Timeouts, now \in Nows :
                 (chan[c].closed /\ ChannelCloseCall(c, timeout, now))
                 => (chan'[c] = chan[c] /\ lastError' = "None")]_vars

C16_Witness ==
    /\ endpoint.calls >= 2 /\ endpoint.closed /\ endpoint.writerCloses = 1
    /\ \E c \in ChanIds :
         chan[c].closed /\ chan[c].frontendClosed /\ chan[c].trigger # None

Deadline(timeout, now) == IF now = None THEN clock + timeout ELSE now + timeout

(* C18: channel.close with a non-null timeout on a channel that is not     *)
(* closed does not fail and leaves the deferred-cancel timer at the        *)
(* earlier of the scheduled deadline and the requested one.                *)
C18_EarliestDeadlineWins ==
    [][\A c \in ChanIds, timeout \in Durations, now \in Nows :
         (~chan[c].closed /\ ChannelCloseCall(c, timeout, now))
         => /\ lastError' = "None"
            /\ chan'[c].trigger =
                 IF chan[c].trigger = None \/ Deadline(timeout, now) < chan[c].trigger
                 THEN Deadline(timeout, now) ELSE chan[c].trigger]_vars

(* C19: a channel has at most one deferred-cancel timer pending, and none  *)
(* once it is closed.                                                      *)
C19_OneTimerNoneWhenClosed ==
    \A c \in ChanIds :
      /\ Cardinality(chan[c].timers) <= 1
      /\ chan[c].closed => chan[c].timers = {}

(* C20: channel.close with a null timeout on a channel that is not closed  *)
(* does not fail, leaves no deferred-cancel timer scheduled or recorded,   *)
(* and has requested the cancellation of every transfer task the channel   *)
(* holds that is not done.                                                 *)
C20_NullTimeoutCancelsNow ==
    [][\A c \in ChanIds, now \in Nows :
         (~chan[c].closed /\ ChannelCloseCall(c, None, now))
         => /\ lastError' = "None"
            /\ chan'[c].trigger = None
            /\ chan'[c].timers = {}
            /\ (chan[c].upRef /\ TaskRunning(chan[c].upTask)) => chan'[c].upCancel
            /\ (chan[c].downRef /\ TaskRunning(chan[c].downTask)) => chan'[c].downCancel]_vars

BackwardEvents ==
    {"DOWNSTREAM_TASK_START", "DOWNSTREAM_TASK_DONE", "DOWNSTREAM_TASK_ERROR",
     "DOWNSTREAM_TASK_CANCELLED", "BACKEND_START_READING", "BACKEND_READ_FINISHED",
     "BACKEND_READ_ERROR", "FRONTEND_WRITE_ERROR"}

(* C21: on a serial-start channel to which no real backend has been set    *)
(* there is no backward task, nothing was read from the backend, nothing   *)
(* was written to the frontend and no backward event is in the log; and    *)
(* set_backend on a channel whose backward task exists creates no second   *)
(* one (it fails and leaves the channel as it was).                        *)
C21_NoBackwardBeforeBackend ==
    /\ [](\A c \in ChanIds :
           (chan[c].variant = "serial" /\ ~BackendTruthy(chan[c]))
           => /\ chan[c].downTask = "none"
              /\ ~chan[c].downRef
              /\ chan[c].beRead = <<>>
              /\ chan[c].feWritten = <<>>
              /\ \A i \in 1..Len(chan[c].events) :
                   chan[c].events[i].event \notin BackwardEvents)
    /\ [][\A c \in ChanIds :
            /\ (chan[c].variant = "serial" /\ chan[c].downTask # "none" /\ SetBackend(c))
               => (chan'[c] = chan[c] /\ lastError' = "AssertionError:set_backend")
            /\ (chan[c].variant = "serial" /\ chan[c].downTask \notin {"none", "created"})
               => chan'[c].downTask # "created"]_vars

C21_Witness ==
    \E c \in ChanIds :
      /\ chan[c].variant = "serial" /\ ~BackendTruthy(chan[c])
      /\ chan[c].closed /\ chan[c].upTask = "ended"
      /\ chan[c].feRead # <<>>
      /\ HasEvent(chan[c], "UPSTREAM_TASK_DONE")

(* C22: transport() of a parallel-start channel launches both tasks; the   *)
(* backward task does not stay parked once connected is set, it has ended  *)
(* when the channel is closed, and released without a real backend it has  *)
(* read nothing from the backend.                                          *)
C22_ParallelBothLaunchedAndReleased ==
    \A c \in ChanIds :
      (chan[c].variant = "parallel" /\ chan[c].tpc # "idle")
      => /\ chan[c].upTask # "none"
         /\ chan[c].downTask # "none"
         /\ chan[c].closed => chan[c].downTask = "ended"
         /\ (chan[c].downTask = "ended" /\ ~BackendTruthy(chan[c]))
              => (chan[c].beRead = <<>> /\ ~HasEvent(chan[c], "BACKEND_START_READING"))

(* C23: connected, once true, stays true; a channel that has a real        *)
(* backend keeps it; and set_backend on a channel that has a real backend  *)
(* fails its assertion and leaves the channel (backend, connected, tasks)  *)
(* as it was.                                                              *)
C23_ConnectedOnceOneBackend ==
    [][\A c \in ChanIds :
         /\ chan[c].connected => chan'[c].connected
         /\ BackendTruthy(chan[c]) => chan'[c].backend = chan[c].backend
         /\ (BackendTruthy(chan[c]) /\ SetBackend(c))
            => (chan'[c] = chan[c] /\ lastError' = "AssertionError:set_backend")]_vars

C23_Witness ==
    \E c \in ChanIds :
      /\ BackendTruthy(chan[c]) /\ chan[c].connected
      /\ chan[c].downTask = "created"
      /\ lastError = "AssertionError:set_backend"

EventCount(s, ev) == Cardinality({i \in 1..Len(s.events) : s.events[i].event = ev})

AwaitingTasks == {"await_up", "await_down", "await_both"}

(* C24: when the forward task ends through its close_backend step, when    *)
(* its done callbacks have run, and when transport() goes on after the     *)
(* tasks it awaited, the backend endpoint is closed and connected is set,  *)
(* however the task ended; when the backward task ends through its         *)
(* close_frontend step, when its done callbacks have run, and when         *)
(* transport() goes on, the frontend endpoint is closed; and a channel's   *)
(* log holds BACKEND_CLOSE and FRONTEND_CLOSE at most once each.           *)
C24_TeardownUnconditional ==
    /\ [](\A c \in ChanIds :
           /\ EventCount(chan[c], "BACKEND_CLOSE") <= 1
           /\ EventCount(chan[c], "FRONTEND_CLOSE") <= 1)
    /\ [][\A c \in ChanIds :
            /\ (\/ chan[c].upTask # "ended" /\ chan'[c].upTask = "ended"
                   /\ chan'[c].upResult = "DONE"
                \/ ~chan[c].upNotified /\ chan'[c].upNotified
                \/ chan[c].tpc \in AwaitingTasks /\ chan'[c].tpc \notin AwaitingTasks)
               => (BackendClosed(chan'[c]) /\ chan'[c].connected)
            /\ (\/ chan[c].downTask # "ended" /\ chan'[c].downTask = "ended"
                   /\ chan'[c].downResult = "DONE"
                \/ ~chan[c].downNotified /\ chan'[c].downNotified
                \/ chan[c].tpc = "await_down" /\ chan'[c].tpc # "await_down")
               => chan'[c].frontendClosed]_vars

C24_Witness ==
    \E c \in ChanIds :
      /\ chan[c].upTask = "ended" /\ chan[c].upResult = "CANCELLED" /\ chan[c].upNotified
      /\ chan[c].backend = "real" /\ chan[c].backendClosed /\ chan[c].connected
      /\ chan[c].downTask = "ended" /\ chan[c].downNotified /\ chan[c].frontendClosed
      /\ EventCount(chan[c], "BACKEND_CLOSE") = 1
      /\ EventCount(chan[c], "FRONTEND_CLOSE") = 1

CloseChannelFinished(c) ==
    \E k \in DOMAIN mclose :
      c \in DOMAIN mclose[k].tasks /\ mclose[k].tasks[c] \in {"done", "error"}

(* C25: the registry holds exactly the channels that manager.transport     *)
(* created and has not finished with and for which no close_channel call   *)
(* has finished (returned, raised or been cancelled); a closed channel is  *)
(* not registered; and once manager.close has returned the registry is     *)
(* empty.                                                                  *)
C25_RegistryIsLiveChannels ==
    /\ channels \subseteq ChanIds
    /\ \A c \in ChanIds :
         /\ c \in channels <=>
              (chan[c].exists /\ chan[c].tpc # "done" /\ ~CloseChannelFinished(c))
         /\ chan[c].closed => c \notin channels
    /\ \A k \in DOMAIN mclose : mclose[k].returned => channels = {}

C25_Witness ==
    /\ \E k \in DOMAIN mclose :
         /\ mclose[k].returned
         /\ \E c \in DOMAIN mclose[k].tasks : mclose[k].tasks[c] = "error"
    /\ lastError = "None"
    /\ channels = {}
    /\ \E c \in ChanIds : chan[c].exists /\ ~chan[c].closed /\ chan[c].trigger # None

====
